---------------------------- MODULE Spec2Model ----------------------------
(***************************************************************************)
(* A model of kli.thorlabs (src/kli/thorlabs/__init__.py): the APT packet  *)
(* codec (_write_packet / _read_packet), the polling loop _get_packet, the *)
(* life cycle of an AptDevice handle (__init__, close, __del__) and the    *)
(* TPZ001 / KDC101 operations built on them.                               *)
(*                                                                         *)
(* Bytes are the naturals 0..255, byte strings are sequences of bytes.     *)
(* Python floats are modelled by exact rationals (numerator, denominator). *)
(* Exceptions are named by the kind of failure; the Python exception and   *)
(* the raising line are:                                                   *)
(*   "Timeout"        ValueError, line 154                                 *)
(*   "RangeError"     ValueError, line 250                                 *)
(*   "DecodingError"  KeyError,   lines 274 ('data'), 276, 277, and the    *)
(*                    missing 'data' of lines 416, 469, 530                *)
(*   "StructError"    struct.error, lines 217, 274, 363, 365, 416, 469,    *)
(*                    530                                                  *)
(*   "EncodingError"  ValueError, line 123                                 *)
(*   "AttributeError" a missing attribute of self (lines 110, 118, 120)    *)
(*   "DeviceNotFound" ValueError, lines 62, 85                             *)
(*   "IndexOutOfRange" ValueError, line 87                                 *)
(*   "NameError"      line 64 (the name port is not defined)               *)
(*   "TransportError" raised by the transport while it is opened (90-99)   *)
(***************************************************************************)
EXTENDS Integers, Sequences, FiniteSets, TLC

(***************************************************************************)
(* Bounds of the model.                                                    *)
(***************************************************************************)
\* packets the device sends in one behaviour
MaxSent == 2
\* packets of the device that may wait unread in the transport
MaxBuffered == 1
\* devices the USB enumeration may find
MaxDevs == 1
\* counts-per-unit values 1..MaxCounts (and the default) are tried
MaxCounts == 4
\* physical values are the rationals num / XDen, |num| <= MaxNum
XDen == 4
MaxNum == 9

(***************************************************************************)
(* Program constants.                                                      *)
(***************************************************************************)
\* _get_packet(self, cmd, attempts=10, wait=0.05)
DefaultAttempts == 10
\* _write_packet(..., dest=0x50, src=0x01)
DefaultDest == 80
DefaultSrc == 1
\* KDC101.__init__: kwargs.pop('counts_per_unit', 34304)
DefaultCounts == 34304

\* Python's None where a packet is expected
None == [none |-> TRUE]

\* Python's None where a byte string is expected (data=None); bytes are 0..255
NoData == <<-1>>

(***************************************************************************)
(* Byte strings and struct.pack / struct.unpack.                           *)
(***************************************************************************)
Take(s, k) == SubSeq(s, 1, IF k < Len(s) THEN k ELSE Len(s))

Drop(s, k) == SubSeq(s, k + 1, Len(s))

RECURSIVE Flatten(_)
Flatten(ss) == IF ss = <<>> THEN <<>> ELSE Head(ss) \o Flatten(Tail(ss))

\* struct.pack('<H', v): 16 bits, little-endian
PackH(v) == << v % 256, (v \div 256) % 256 >>

\* a variant of UnpackH that reads the low byte alone
UnpackH_low(b) == b[1]

\* struct.unpack('<H', b)
UnpackH(b) == b[1] + 256 * b[2]

\* dest | 0x80
Or80(dest) == IF (dest \div 128) % 2 = 1 THEN dest ELSE dest + 128

\* a variant of And80 that tests bit 0x40
And40(b) == IF (b \div 64) % 2 = 1 THEN 128 ELSE 0

\* header[4] & 0x80
And80(b) == IF (b \div 128) % 2 = 1 THEN 128 ELSE 0

\* header[4] & 0x7F
And7F(b) == b % 128

\* a variant of _write_packet that refuses an empty payload with the error
\* of line 123 and writes nothing
_write_packet_strict(cmd, param1, param2, data, dest, src) ==
    IF data = NoData
    THEN [exc |-> "none",
          writes |-> << PackH(cmd) \o <<param1, param2, dest, src>> >>]
    ELSE IF data = <<>>
    THEN [exc |-> "EncodingError", writes |-> <<>>]
    ELSE [exc |-> "none",
          writes |-> << PackH(cmd) \o PackH(Len(data)) \o <<Or80(dest), src>>,
                        data >>]

(***************************************************************************)
(* _write_packet: the byte strings handed to self._write, in order, and    *)
(* the exception raised ("none" when the call returns).                    *)
(***************************************************************************)
_write_packet(cmd, param1, param2, data, dest, src) ==
    IF data = NoData
    THEN [exc |-> "none",
          writes |-> << PackH(cmd) \o <<param1, param2, dest, src>> >>]
    ELSE [exc |-> "none",
          writes |-> << PackH(cmd) \o PackH(Len(data)) \o <<Or80(dest), src>>,
                        data >>]

(***************************************************************************)
(* The transport's read(n): at most n of the bytes buffered, fewer (also   *)
(* none) when the device has not delivered them before the read times out. *)
(***************************************************************************)
_read(buf, k) == Take(buf, k)

(***************************************************************************)
(* _read_packet on the buffered input buf: the packet (or None) and the    *)
(* number of bytes taken from the transport.                               *)
(***************************************************************************)
_read_packet(buf) ==
    LET header == _read(buf, 6) IN
    IF Len(header) # 6
    THEN [packet |-> None, used |-> Len(header)]
    ELSE IF And80(header[5]) # 0
         THEN LET packet_length == UnpackH(SubSeq(header, 3, 4))
                  data == _read(Drop(buf, 6), packet_length)
              IN  [packet |-> [cmd |-> UnpackH(SubSeq(header, 1, 2)),
                               source |-> header[6],
                               id |-> SubSeq(header, 1, 1),
                               dest |-> And7F(header[5]),
                               data |-> data],
                   used |-> 6 + Len(data)]
         ELSE [packet |-> [cmd |-> UnpackH(SubSeq(header, 1, 2)),
                           source |-> header[6],
                           id |-> SubSeq(header, 1, 1),
                           dest |-> header[5],
                           param1 |-> header[3],
                           param2 |-> header[4]],
               used |-> 6]


\* a variant of Matches that accepts any packet
Matches_any(packet, cmd) == packet # None

(***************************************************************************)
(* _get_packet, line 149: the test that ends the loop with a return.       *)
(***************************************************************************)
Matches(packet, cmd) == packet # None /\ packet.cmd = cmd

\* for n in range(attempts): every pass of the loop that does not return
\* uses up one attempt, whatever _read_packet gave
NextAttempt(k, packet) == k + 1

\* a variant of Exhausted that allows one pass more
Exhausted_late(k, attempts) == k > attempts

\* the loop of line 147 ends, and line 154 raises, after `attempts` passes
Exhausted(k, attempts) == k >= attempts

\* a variant of SleepsAfter that sleeps only after "no packet"
SleepsAfter_none_only(packet) == IF packet = None THEN 1 ELSE 0

\* time.sleep(wait), line 152: reached on every pass that does not return
SleepsAfter(packet) == 1

\* a variant of Consume that leaves a packet that did not match in the buffer
Consume_peek(buf, used, matched) == IF matched THEN Drop(buf, used) ELSE buf

\* what self._read leaves buffered in the transport after `used` bytes
\* were taken by one _read_packet (lines 128, 137)
Consume(buf, used, matched) == Drop(buf, used)

(***************************************************************************)
(* AptDevice.close: the attributes left on self, whether port.close() was  *)
(* called, and the exception raised.  `del self.port, self._write,         *)
(* self._read` deletes from left to right and stops at the first missing.  *)
(***************************************************************************)
close(a) ==
    IF "port" \in a
    THEN IF "_write" \notin a
         THEN [attrs |-> a \ {"port"}, closed |-> TRUE, exc |-> "AttributeError"]
         ELSE IF "_read" \notin a
              THEN [attrs |-> a \ {"port", "_write"}, closed |-> TRUE,
                    exc |-> "AttributeError"]
              ELSE [attrs |-> a \ {"port", "_write", "_read"}, closed |-> TRUE,
                    exc |-> "none"]
    ELSE [attrs |-> a, closed |-> FALSE, exc |-> "none"]

(***************************************************************************)
(* TPZ001                                                                  *)
(***************************************************************************)
\* {1:75, 2:100, 3:150}
V_lim_table == [c \in {1, 2, 3} |-> CASE c = 1 -> 75 [] c = 2 -> 100 [] c = 3 -> 150]

\* {1:'A', 2:'B', 3:'SMA'}
analog_in_table == [c \in {1, 2, 3} |-> CASE c = 1 -> "A" [] c = 2 -> "B" [] c = 3 -> "SMA"]

\* a variant of get_settings_decode that passes an unknown code through, as
\* dict.get(code, code) would
get_settings_decode_lenient(packet) ==
    IF "data" \notin DOMAIN packet
    THEN [kind |-> "DecodingError", value |-> "data"]
    ELSE LET d == Take(packet.data, 6) IN
         IF Len(d) # 6
         THEN [kind |-> "StructError", value |-> Len(d)]
         ELSE LET V_lim == UnpackH(SubSeq(d, 3, 4))
                  analog_in == UnpackH(SubSeq(d, 5, 6))
              IN  [kind |-> "ok",
                   value |-> [V_lim |-> IF V_lim \in DOMAIN V_lim_table
                                        THEN V_lim_table[V_lim] ELSE V_lim,
                              analog_input |-> IF analog_in \in DOMAIN analog_in_table
                                               THEN analog_in_table[analog_in]
                                               ELSE analog_in]]

\* get_settings, lines 274-278, applied to the packet _get_packet returned
get_settings_decode(packet) ==
    IF "data" \notin DOMAIN packet
    THEN [kind |-> "DecodingError", value |-> "data"]
    ELSE LET d == Take(packet.data, 6) IN
         IF Len(d) # 6
         THEN [kind |-> "StructError", value |-> Len(d)]
         ELSE LET V_lim == UnpackH(SubSeq(d, 3, 4))
                  analog_in == UnpackH(SubSeq(d, 5, 6))
              IN  IF V_lim \notin DOMAIN V_lim_table
                  THEN [kind |-> "DecodingError", value |-> V_lim]
                  ELSE IF analog_in \notin DOMAIN analog_in_table
                       THEN [kind |-> "DecodingError", value |-> analog_in]
                       ELSE [kind |-> "ok",
                             value |-> [V_lim |-> V_lim_table[V_lim],
                                        analog_input |-> analog_in_table[analog_in]]]

\* get_PI, lines 217-218
get_PI_decode(packet) ==
    IF "data" \notin DOMAIN packet
    THEN [kind |-> "DecodingError", value |-> "data"]
    ELSE LET d == Take(packet.data, 6) IN
         IF Len(d) # 6
         THEN [kind |-> "StructError", value |-> Len(d)]
         ELSE [kind |-> "ok",
               value |-> <<UnpackH(SubSeq(d, 3, 4)), UnpackH(SubSeq(d, 5, 6))>>]

\* a variant of HasMaxVolts that never finds the attribute
HasMaxVolts_never(a) == FALSE

\* set_volts, line 247: hasattr(self, 'max_volts')
HasMaxVolts(a) == "max_volts" \in a

\* a variant of OutOfRange without the lower limit
OutOfRange_upper_only(V, max_volts) == V > max_volts

\* set_volts, line 249
OutOfRange(V, max_volts) == (V < 0) \/ (V > max_volts)

\* set_volts, line 252: int((V / max_volts) * 32767 + 0.5) for 0 <= V <= max_volts
VoltsRaw(V, max_volts) == (2 * V * 32767 + max_volts) \div (2 * max_volts)

\* set_volts, lines 249-252, once max_volts is known
set_volts_tail(V, max_volts) ==
    IF OutOfRange(V, max_volts)
    THEN [exc |-> "RangeError", writes |-> <<>>]
    ELSE _write_packet(1603, 0, 0, PackH(1) \o PackH(VoltsRaw(V, max_volts)),
                       DefaultDest, DefaultSrc)

(***************************************************************************)
(* KDC101 unit conversion.  A physical value is the rational num / den.    *)
(***************************************************************************)
\* Python's int() of the rational a / b (b > 0): truncation toward zero
IntTrunc(a, b) == IF a >= 0 THEN a \div b ELSE -((-a) \div b)

(***************************************************************************)
(* TPZ001.set_pos for the percentage num / den.                            *)
(***************************************************************************)
\* a variant of OutOfRangePos without the lower limit
OutOfRangePos_upper_only(num, den) == num > 100 * den

\* set_pos, line 263
OutOfRangePos(num, den) == (num < 0) \/ (num > 100 * den)

\* set_pos, line 266: int((pos / 100) * 65535 + 0.5)
PosRaw(num, den) == IntTrunc(2 * num * 65535 + 100 * den, 200 * den)

\* set_pos, lines 263-266
set_pos(num, den) ==
    IF OutOfRangePos(num, den)
    THEN [exc |-> "RangeError", writes |-> <<>>]
    ELSE _write_packet(1606, 0, 0, PackH(1) \o PackH(PosRaw(num, den)),
                       DefaultDest, DefaultSrc)

\* move, line 359: d = int(distance * self._x_conv + 0.5)
to_raw_position(num, den, x_conv) == IntTrunc(2 * num * x_conv + den, 2 * den)

\* get_pos, line 532: data[1] / self._x_conv, as the fraction <<num, den>>
to_physical_position(raw, x_conv) == <<raw, x_conv>>

(***************************************************************************)
(* The conversion factors.  _x_conv is the counts-per-unit value itself;   *)
(* _v_conv and _a_conv are products of it with DRIVER_T = 2048/6E6 and     *)
(* 65536, kept as the monomial counts * DRIVER_T^T * 65536^B.              *)
(***************************************************************************)
\* no factor assigned yet
NoScale == [counts |-> 0, T |-> 0, B |-> 0]

\* the factor counts, as a monomial
ScaleOf(counts) == [counts |-> counts, T |-> 0, B |-> 0]

\* s * self.DRIVER_T
MulT(s) == [s EXCEPT !.T = @ + 1]

\* s * 65536
Mul65536(s) == [s EXCEPT !.B = @ + 1]

\* the monomial s as the fraction <<numerator, denominator>>
ScaleRatio(s) ==
    << s.counts * (IF s.T = 0 THEN 1 ELSE IF s.T = 1 THEN 2048 ELSE 2048 * 2048)
                * (IF s.B = 0 THEN 1 ELSE 65536),
       IF s.T = 0 THEN 1 ELSE IF s.T = 1 THEN 6000000 ELSE 6000000 * 6000000 >>

\* set_vel_params, lines 442-444: int(value * scale + 0.5) for the value
\* num / den; a value of 0 gives int(0.5) = 0 whatever the scale
to_raw_scaled(num, den, s) ==
    IF num = 0
    THEN 0
    ELSE IntTrunc(2 * num * ScaleRatio(s)[1] + den * ScaleRatio(s)[2],
                  2 * den * ScaleRatio(s)[2])

(***************************************************************************)
(* struct.pack / struct.unpack of 'i': 32 bits, signed, little-endian.     *)
(***************************************************************************)
PackI(d) ==
    << d % 256, (d \div 256) % 256, (d \div 65536) % 256, (d \div 16777216) % 256 >>

UnpackI(b) ==
    b[1] + 256 * b[2] + 65536 * b[3]
      + 16777216 * (IF b[4] >= 128 THEN b[4] - 256 ELSE b[4])

(***************************************************************************)
(* KDC101                                                                  *)
(***************************************************************************)
\* move, lines 359-365: what it hands to _write_packet.  struct.pack('<Hi')
\* raises, before anything is written, for a channel outside 0..65535.
move(num, den, channel, absolute, x_conv) ==
    IF channel < 0 \/ channel > 65535
    THEN [exc |-> "StructError", writes |-> <<>>]
    ELSE LET d == to_raw_position(num, den, x_conv)
         IN  _write_packet(IF absolute THEN 1107 ELSE 1096, 0, 0,
                           PackH(channel) \o PackI(d), DefaultDest, DefaultSrc)

\* set_vel_params, lines 442-446, for the values num / den
set_vel_params(accel, max_vel, channel, min_vel, den, v_conv, a_conv) ==
    LET mv == to_raw_scaled(min_vel, den, v_conv)
        a == to_raw_scaled(accel, den, a_conv)
        Mv == to_raw_scaled(max_vel, den, v_conv)
    IN  _write_packet(1043, 0, 0,
                      PackH(channel) \o PackI(mv) \o PackI(a) \o PackI(Mv),
                      DefaultDest, DefaultSrc)

\* get_pos, lines 530-532, applied to the packet _get_packet returned
get_pos_decode(packet, x_conv) ==
    IF "data" \notin DOMAIN packet
    THEN [kind |-> "DecodingError", value |-> "data"]
    ELSE IF Len(packet.data) # 6
    THEN [kind |-> "StructError", value |-> Len(packet.data)]
    ELSE [kind |-> "ok",
          value |-> to_physical_position(UnpackI(SubSeq(packet.data, 3, 6)), x_conv)]

\* get_vel_params, lines 416-423: a value is the fraction <<raw, factor>>
get_vel_params_decode(packet, v_conv, a_conv) ==
    IF "data" \notin DOMAIN packet
    THEN [kind |-> "DecodingError", value |-> "data"]
    ELSE IF Len(packet.data) # 14
    THEN [kind |-> "StructError", value |-> Len(packet.data)]
    ELSE LET d == packet.data
         IN  [kind |-> "ok",
              value |-> [channel |-> UnpackH(SubSeq(d, 1, 2)),
                         min_vel |-> <<UnpackI(SubSeq(d, 3, 6)), v_conv>>,
                         accel |-> <<UnpackI(SubSeq(d, 7, 10)), a_conv>>,
                         max_vel |-> <<UnpackI(SubSeq(d, 11, 14)), v_conv>>]]

\* {1:'continuous', 2:'single step'}.get(code, code)
jog_mode_table(code) ==
    CASE code = 1 -> "continuous" [] code = 2 -> "single step" [] OTHER -> code

\* {1:'immediate', 2:'profiled'}.get(code, code)
stop_mode_table(code) ==
    CASE code = 1 -> "immediate" [] code = 2 -> "profiled" [] OTHER -> code

\* a variant of get_jog_params_decode that looks the codes up as
\* get_settings does, raising for a code the tables do not have
get_jog_params_decode_strict(packet, x_conv, v_conv, a_conv) ==
    IF "data" \notin DOMAIN packet
    THEN [kind |-> "DecodingError", value |-> "data"]
    ELSE IF Len(packet.data) # 22
    THEN [kind |-> "StructError", value |-> Len(packet.data)]
    ELSE LET d == packet.data
             jog == UnpackH(SubSeq(d, 3, 4))
             stop == UnpackH(SubSeq(d, 21, 22))
         IN  IF jog \notin {1, 2}
             THEN [kind |-> "DecodingError", value |-> jog]
             ELSE IF stop \notin {1, 2}
             THEN [kind |-> "DecodingError", value |-> stop]
             ELSE [kind |-> "ok",
                   value |-> [channel |-> UnpackH(SubSeq(d, 1, 2)),
                              jog_mode |-> jog_mode_table(jog),
                              step_size |-> <<UnpackI(SubSeq(d, 5, 8)), x_conv>>,
                              min_vel |-> <<UnpackI(SubSeq(d, 9, 12)), v_conv>>,
                              accel |-> <<UnpackI(SubSeq(d, 13, 16)), a_conv>>,
                              max_vel |-> <<UnpackI(SubSeq(d, 17, 20)), v_conv>>,
                              stop_mode |-> stop_mode_table(stop)]]

\* get_jog_params, lines 469-479
get_jog_params_decode(packet, x_conv, v_conv, a_conv) ==
    IF "data" \notin DOMAIN packet
    THEN [kind |-> "DecodingError", value |-> "data"]
    ELSE IF Len(packet.data) # 22
    THEN [kind |-> "StructError", value |-> Len(packet.data)]
    ELSE LET d == packet.data
         IN  [kind |-> "ok",
              value |-> [channel |-> UnpackH(SubSeq(d, 1, 2)),
                         jog_mode |-> jog_mode_table(UnpackH(SubSeq(d, 3, 4))),
                         step_size |-> <<UnpackI(SubSeq(d, 5, 8)), x_conv>>,
                         min_vel |-> <<UnpackI(SubSeq(d, 9, 12)), v_conv>>,
                         accel |-> <<UnpackI(SubSeq(d, 13, 16)), a_conv>>,
                         max_vel |-> <<UnpackI(SubSeq(d, 17, 20)), v_conv>>,
                         stop_mode |-> stop_mode_table(UnpackH(SubSeq(d, 21, 22)))]]

\* a variant of _flush that discards nothing
_flush_keep(buf) == buf

\* self._flush(), port.purge_buffers: the buffered input after the purge
_flush(buf) == <<>>



(***************************************************************************)
(* State.                                                                  *)
(***************************************************************************)
VARIABLES
    platform,   \* platform.system(): "Windows" (USE_SERIAL) or "Other"
    cls,        \* the class of the handle: "TPZ001" or "KDC101"
    life,       \* "new", "ready" (__init__ returned), "failed" (__init__ raised), "destroyed"
    attrs,      \* the attributes present on self (hasattr)
    port,       \* the transport: "none", "created", "open", "closed"
    releases,   \* how often port.close() released an open transport
    max_volts,  \* self.max_volts (0 while absent)
    x_conv,     \* self._x_conv (0 while absent)
    v_conv,     \* self._v_conv (NoScale while absent)
    a_conv,     \* self._a_conv (NoScale while absent)
    rx,         \* bytes the device delivered and the host has not read
    pending,    \* rest of a packet the device has delivered only in part
    sentCount,  \* packets the device has sent
    late,       \* the transport operations made after port.close()
    pc,         \* "idle", or "await" inside _get_packet
    cur,        \* the call in progress, or the last one
    n,          \* _get_packet's loop variable: passes that did not return
    sleeps,     \* time.sleep calls of the current _get_packet
    log,        \* what the _read_packet calls of the current _get_packet found
    ret,        \* what the current _get_packet returned (None: nothing yet)
    retFrom,    \* the bytes the returned packet was decoded from
    wire,       \* the writes of the current call, in order
    result,     \* how the last call ended
    discarded,  \* the bytes _get_packet read and did not return
    codec,      \* the codec round trip (CodecSpec)
    conv        \* the unit conversion round trip (ConvSpec)

handleVars == <<platform, cls, life, attrs, port, releases, max_volts, x_conv,
                v_conv, a_conv>>
deviceVars == <<rx, pending, sentCount, late>>
callVars == <<pc, cur, n, sleeps, log, ret, retFrom, wire, result, discarded>>
vars == <<handleVars, deviceVars, callVars, codec, conv>>

\* a variant of set_counts_per_unit that assigns _x_conv alone
set_counts_per_unit_x_only(counts) ==
    [x_conv |-> counts, v_conv |-> v_conv, a_conv |-> a_conv]

\* set_counts_per_unit, lines 298-300: the three attributes it assigns
set_counts_per_unit(counts) ==
    LET v == Mul65536(MulT(ScaleOf(counts)))
    IN  [x_conv |-> counts, v_conv |-> v, a_conv |-> MulT(v)]

\* the bytes of buffered cells
Bytes(cells) == [i \in 1..Len(cells) |-> cells[i].b]

\* the identities of cells: (packet, index in the packet, the packet's command)
Ident(cells) == {<<cells[i].id, cells[i].k, cells[i].cmd>> : i \in 1..Len(cells)}

\* whether the buffer starts with one whole packet of the device, and which
HeadTruth(cells) ==
    IF cells # <<>> /\ cells[1].k = 1 /\ Len(cells) >= cells[1].len
       /\ \A i \in 1..cells[1].len : cells[i].id = cells[1].id /\ cells[i].k = i
    THEN [whole |-> TRUE, id |-> cells[1].id, len |-> cells[1].len, cmd |-> cells[1].cmd]
    ELSE [whole |-> FALSE, id |-> 0, len |-> 0, cmd |-> 0]

(***************************************************************************)
(* The device.  It frames its packets as the host does, with the host as   *)
(* destination (0x01) and itself as source (0x50).                         *)
(***************************************************************************)
\* the answer to a settings query: channel, voltage-limit code, analog-input code
SettingsPacket(v, a) == [cmd |-> 2006, data |-> PackH(1) \o PackH(v) \o PackH(a)]

\* the packets the device sends in Spec: settings with codes in and out of
\* the tables, the PI constants, and a short-form message
DevicePackets ==
    {SettingsPacket(3, 3), SettingsPacket(4, 1)}
    \cup {[cmd |-> 1628, data |-> PackH(1) \o PackH(100) \o PackH(20)]}
    \cup {[cmd |-> 1124, param1 |-> 1, param2 |-> 0]}

DeviceFrame(p) ==
    IF "data" \in DOMAIN p
    THEN Flatten(_write_packet(p.cmd, 0, 0, p.data, DefaultSrc, DefaultDest).writes)
    ELSE Flatten(_write_packet(p.cmd, p.param1, p.param2, NoData, DefaultSrc, DefaultDest).writes)

Cells(p, id) ==
    LET f == DeviceFrame(p)
    IN  [i \in 1..Len(f) |-> [b |-> f[i], id |-> id, k |-> i, len |-> Len(f), cmd |-> p.cmd]]

\* where a packet may be cut when it arrives in two parts
Cuts == {8}

\* the device sends packet p; the first `cut` bytes arrive now
DeviceSend(p, cut) ==
    /\ port = "open"
    /\ pending = <<>>
    /\ sentCount < MaxSent
    /\ Cardinality({rx[i].id : i \in 1..Len(rx)}) < MaxBuffered
    /\ sentCount' = sentCount + 1
    /\ LET c == Cells(p, sentCount + 1)
       IN  /\ cut <= Len(c)
           /\ rx' = rx \o Take(c, cut)
           /\ pending' = Drop(c, cut)
    /\ UNCHANGED <<handleVars, callVars, codec, conv, late>>

\* the rest of a packet arrives
DeviceRest ==
    /\ port = "open"
    /\ pending # <<>>
    /\ rx' = rx \o pending
    /\ pending' = <<>>
    /\ UNCHANGED <<handleVars, callVars, codec, conv, sentCount, late>>


(***************************************************************************)
(* Life cycle of the handle.                                               *)
(***************************************************************************)
CountsSet == (1..MaxCounts) \cup {DefaultCounts}

Idle == [op |-> "none", arg |-> 0, cmd |-> 0, attempts |-> 0, cached |-> FALSE,
         stale |-> {}, afterTimeout |-> FALSE]

\* the calls that purge the transport before they write their query
Purging == {"get_vel_params", "get_jog_params", "get_pos"}

NoResult == [kind |-> "none", value |-> 0]

(***************************************************************************)
(* The record kept of the passes of one _get_packet:                       *)
(*   made   the _read_packet calls made                                    *)
(*   none   those that gave None                                           *)
(*   other  those that gave a packet with another command                  *)
(*   clean  every call found one whole packet of the device at the head    *)
(*          of the buffered input                                          *)
(*   hits   the calls that found there a whole packet with the awaited     *)
(*          command                                                        *)
(*   exact  every call that found a whole packet took exactly its bytes    *)
(*   lastId the packet the last call found at the head (0: none whole)     *)
(***************************************************************************)
NoLog == [made |-> 0, none |-> 0, other |-> 0, clean |-> TRUE, hits |-> 0,
          exact |-> TRUE, lastId |-> 0]

Logged(l, h, cmd, packet, used, matched) ==
    [made |-> l.made + 1,
     none |-> l.none + (IF packet = None THEN 1 ELSE 0),
     other |-> l.other + (IF packet # None /\ ~matched THEN 1 ELSE 0),
     clean |-> l.clean /\ h.whole,
     hits |-> l.hits + (IF h.whole /\ h.cmd = cmd THEN 1 ELSE 0),
     exact |-> l.exact /\ (h.whole => used = h.len),
     lastId |-> h.id]

\* a call starts: the bookkeeping of the previous call is forgotten; kept
\* are whether max_volts was cached, whether the previous call ended in the
\* Timeout and, for a call that purges, the bytes then buffered unread
Begin(op, arg, cmd, att) ==
    /\ cur' = [op |-> op, arg |-> arg, cmd |-> cmd, attempts |-> att,
               cached |-> "max_volts" \in attrs,
               stale |-> IF op \in Purging THEN Ident(rx) ELSE {},
               afterTimeout |-> result.kind = "Timeout"]
    /\ n' = 0
    /\ sleeps' = 0
    /\ log' = NoLog
    /\ ret' = None
    /\ retFrom' = {}

\* AptDevice.__init__ (for a KDC101 after set_counts_per_unit): `found`
\* devices match, `device` is the index asked for, and the transport fails
\* at open_from_device ("open"), at a later set-up call ("config") or not
\* at all ("none")
Construct(found, device, fail, counts) ==
    /\ life = "new"
    /\ Begin("__init__", device, 0, 0)
    /\ IF cls = "KDC101"
       THEN LET c == set_counts_per_unit(counts)
            IN  x_conv' = c.x_conv /\ v_conv' = c.v_conv /\ a_conv' = c.a_conv
       ELSE UNCHANGED <<x_conv, v_conv, a_conv>>
    /\ wire' = <<>>
    /\ IF platform = "Windows"
       THEN /\ result' = [kind |-> IF device = 0 THEN "DeviceNotFound" ELSE "NameError",
                          value |-> 0]
            /\ life' = "failed"
            /\ UNCHANGED <<attrs, port>>
       ELSE IF found = 0
       THEN /\ result' = [kind |-> "DeviceNotFound", value |-> 0]
            /\ life' = "failed"
            /\ UNCHANGED <<attrs, port>>
       ELSE IF device >= found
       THEN /\ result' = [kind |-> "IndexOutOfRange", value |-> found]
            /\ life' = "failed"
            /\ UNCHANGED <<attrs, port>>
       ELSE IF fail = "open"
       THEN /\ result' = [kind |-> "TransportError", value |-> 0]
            /\ life' = "failed"
            /\ attrs' = {"port"}
            /\ port' = "created"
       ELSE IF fail = "config"
       THEN /\ result' = [kind |-> "TransportError", value |-> 0]
            /\ life' = "failed"
            /\ attrs' = {"port"}
            /\ port' = "open"
       ELSE /\ result' = [kind |-> "ok", value |-> 0]
            /\ life' = "ready"
            /\ attrs' = {"port", "_write", "_read", "_flush"}
            /\ port' = "open"
    /\ UNCHANGED <<platform, cls, releases, max_volts, deviceVars, pc, discarded,
                   codec, conv>>

\* the effect of close() on the transport
CloseEffect(c) ==
    /\ attrs' = c.attrs
    /\ port' = IF c.closed /\ port = "open" THEN "closed" ELSE port
    /\ releases' = IF c.closed /\ port = "open" THEN releases + 1 ELSE releases
    /\ rx' = IF c.closed THEN <<>> ELSE rx
    /\ pending' = IF c.closed THEN <<>> ELSE pending

\* close()
Close ==
    /\ life \in {"ready", "failed"}
    /\ pc = "idle"
    /\ Begin("close", 0, 0, 0)
    /\ wire' = <<>>
    /\ LET c == close(attrs)
       IN  /\ CloseEffect(c)
           /\ result' = [kind |-> IF c.exc = "none" THEN "ok" ELSE c.exc, value |-> 0]
    /\ UNCHANGED <<platform, cls, life, max_volts, x_conv, v_conv, a_conv, sentCount,
                   late, pc, discarded, codec, conv>>

\* __del__: close(); an exception close() raises there is reported and dropped
Del ==
    /\ life \in {"ready", "failed"}
    /\ pc = "idle"
    /\ Begin("__del__", 0, 0, 0)
    /\ wire' = <<>>
    /\ life' = "destroyed"
    /\ LET c == close(attrs)
       IN  /\ CloseEffect(c)
           /\ result' = [kind |-> "ok", value |-> c.exc]
    /\ UNCHANGED <<platform, cls, max_volts, x_conv, v_conv, a_conv, sentCount,
                   late, pc, discarded, codec, conv>>

(***************************************************************************)
(* Calls.  self._write and self._read are looked up when they are used: a  *)
(* handle without them raises AttributeError before any byte moves.        *)
(***************************************************************************)
\* a variant of Callable in which a handle whose last call timed out cannot
\* be called again
Callable_strict == life = "ready" /\ pc = "idle" /\ result.kind # "Timeout"

Callable == life = "ready" /\ pc = "idle"

\* a call that writes w (the outcome of _write_packet) and returns
WriteOnly(w) ==
    /\ pc' = "idle"
    /\ IF "_write" \in attrs
       THEN /\ wire' = w.writes
            /\ result' = [kind |-> IF w.exc = "none" THEN "ok" ELSE w.exc, value |-> 0]
       ELSE /\ wire' = <<>>
            /\ result' = [kind |-> "AttributeError", value |-> 0]

\* a call that writes the query w and then enters _get_packet
Query(w) ==
    IF "_write" \in attrs /\ w.exc = "none"
    THEN /\ wire' = w.writes
         /\ pc' = "await"
         /\ result' = [kind |-> "pending", value |-> 0]
    ELSE /\ wire' = <<>>
         /\ pc' = "idle"
         /\ result' = [kind |-> IF "_write" \in attrs THEN w.exc ELSE "AttributeError",
                       value |-> 0]

\* identify()
Identify ==
    /\ Callable
    /\ Begin("identify", 0, 0, 0)
    /\ WriteOnly(_write_packet(547, 0, 0, NoData, DefaultDest, DefaultSrc))
    /\ UNCHANGED <<handleVars, deviceVars, discarded, codec, conv>>

\* TPZ001.get_settings()
GetSettings ==
    /\ Callable
    /\ cls = "TPZ001"
    /\ Begin("get_settings", 0, 2006, DefaultAttempts)
    /\ Query(_write_packet(2005, 1, 0, NoData, DefaultDest, DefaultSrc))
    /\ UNCHANGED <<handleVars, deviceVars, discarded, codec, conv>>

\* TPZ001.get_PI()
GetPI ==
    /\ Callable
    /\ cls = "TPZ001"
    /\ Begin("get_PI", 0, 1628, DefaultAttempts)
    /\ Query(_write_packet(1627, 1, 0, NoData, DefaultDest, DefaultSrc))
    /\ UNCHANGED <<handleVars, deviceVars, discarded, codec, conv>>

\* TPZ001.set_volts(V)
SetVolts(V) ==
    /\ Callable
    /\ cls = "TPZ001"
    /\ Begin("set_volts", V, 2006, DefaultAttempts)
    /\ IF HasMaxVolts(attrs)
       THEN LET t == set_volts_tail(V, max_volts)
            IN  IF t.exc # "none"
                THEN /\ pc' = "idle"
                     /\ wire' = <<>>
                     /\ result' = [kind |-> t.exc, value |-> 0]
                ELSE WriteOnly(t)
       ELSE Query(_write_packet(2005, 1, 0, NoData, DefaultDest, DefaultSrc))
    /\ UNCHANGED <<handleVars, deviceVars, discarded, codec, conv>>

\* TPZ001.set_pos(pos) for the percentage num / XDen
SetPos(num) ==
    /\ Callable
    /\ cls = "TPZ001"
    /\ Begin("set_pos", num, 0, 0)
    /\ LET w == set_pos(num, XDen)
       IN  IF w.exc # "none"
           THEN /\ pc' = "idle"
                /\ wire' = <<>>
                /\ result' = [kind |-> w.exc, value |-> 0]
           ELSE WriteOnly(w)
    /\ UNCHANGED <<handleVars, deviceVars, discarded, codec, conv>>

\* _get_packet(cmd, attempts) called on its own
GetPacket(cmd, att) ==
    /\ Callable
    /\ Begin("_get_packet", 0, cmd, att)
    /\ wire' = <<>>
    /\ IF "_read" \notin attrs /\ att > 0
       THEN /\ pc' = "idle"
            /\ result' = [kind |-> "AttributeError", value |-> 0]
       ELSE IF att = 0
       THEN /\ pc' = "idle"
            /\ result' = [kind |-> "Timeout", value |-> cmd]
       ELSE /\ pc' = "await"
            /\ result' = [kind |-> "pending", value |-> 0]
    /\ UNCHANGED <<handleVars, deviceVars, discarded, codec, conv>>

\* KDC101.set_counts_per_unit(counts): it touches no transport and can be
\* called on any handle that exists
SetCountsPerUnit(counts) ==
    /\ life \in {"ready", "failed"}
    /\ pc = "idle"
    /\ cls = "KDC101"
    /\ Begin("set_counts_per_unit", counts, 0, 0)
    /\ LET c == set_counts_per_unit(counts)
       IN  x_conv' = c.x_conv /\ v_conv' = c.v_conv /\ a_conv' = c.a_conv
    /\ wire' = <<>>
    /\ result' = [kind |-> "ok", value |-> 0]
    /\ UNCHANGED <<platform, cls, life, attrs, port, releases, max_volts, deviceVars,
                   pc, discarded, codec, conv>>

\* KDC101.move(distance, channel, absolute) for the distance num / XDen
Move(num, channel, absolute) ==
    /\ Callable
    /\ cls = "KDC101"
    /\ Begin("move", [num |-> num, channel |-> channel, absolute |-> absolute], 0, 0)
    /\ LET w == move(num, XDen, channel, absolute, x_conv)
       IN  IF w.exc # "none"
           THEN /\ pc' = "idle"
                /\ wire' = <<>>
                /\ result' = [kind |-> w.exc, value |-> 0]
           ELSE WriteOnly(w)
    /\ UNCHANGED <<handleVars, deviceVars, discarded, codec, conv>>

\* KDC101.set_vel_params(accel, max_vel), channel=1, min_vel=0
SetVelParams(accel, max_vel) ==
    /\ Callable
    /\ cls = "KDC101"
    /\ Begin("set_vel_params", [accel |-> accel, max_vel |-> max_vel], 0, 0)
    /\ WriteOnly(set_vel_params(accel, max_vel, 1, 0, XDen, v_conv, a_conv))
    /\ UNCHANGED <<handleVars, deviceVars, discarded, codec, conv>>

\* self._flush(), then the query w, then _get_packet.  After close() the
\* attribute _flush is still the closed port's purge_buffers: the purge is
\* made on the closed transport, which raises or returns; when it returns,
\* _write_packet finds no self._write.
PurgeQuery(w) ==
    IF "_flush" \notin attrs
    THEN /\ wire' = <<>>
         /\ pc' = "idle"
         /\ result' = [kind |-> "AttributeError", value |-> 0]
         /\ UNCHANGED <<rx, late>>
    ELSE IF port # "open"
    THEN /\ late' = late \cup {"purge"}
         /\ wire' = <<>>
         /\ pc' = "idle"
         /\ \E raised \in BOOLEAN :
                result' = [kind |-> IF raised \/ "_write" \in attrs
                                    THEN "TransportError" ELSE "AttributeError",
                           value |-> 0]
         /\ UNCHANGED rx
    ELSE /\ rx' = _flush(rx)
         /\ Query(w)
         /\ UNCHANGED late

\* KDC101.get_vel_params(), channel=1
GetVelParams ==
    /\ Callable
    /\ cls = "KDC101"
    /\ Begin("get_vel_params", 1, 1045, DefaultAttempts)
    /\ PurgeQuery(_write_packet(1044, 1, 0, NoData, DefaultDest, DefaultSrc))
    /\ UNCHANGED <<handleVars, pending, sentCount, discarded, codec, conv>>

\* KDC101.get_jog_params(), channel=1
GetJogParams ==
    /\ Callable
    /\ cls = "KDC101"
    /\ Begin("get_jog_params", 1, 1048, DefaultAttempts)
    /\ PurgeQuery(_write_packet(1047, 1, 0, NoData, DefaultDest, DefaultSrc))
    /\ UNCHANGED <<handleVars, pending, sentCount, discarded, codec, conv>>

\* KDC101.get_pos(), channel=1
GetPos ==
    /\ Callable
    /\ cls = "KDC101"
    /\ Begin("get_pos", 1, 1042, DefaultAttempts)
    /\ PurgeQuery(_write_packet(1041, 1, 0, NoData, DefaultDest, DefaultSrc))
    /\ UNCHANGED <<handleVars, pending, sentCount, discarded, codec, conv>>


(***************************************************************************)
(* One pass of _get_packet's loop (lines 147-152), with what the caller    *)
(* does with the packet when the loop returns one, and the raise of line   *)
(* 154 when the last pass did not return.                                  *)
(***************************************************************************)
\* the caller's code after _get_packet returned packet
Continue(packet) ==
    IF cur.op = "get_settings"
    THEN /\ result' = get_settings_decode(packet)
         /\ UNCHANGED <<attrs, max_volts, wire>>
    ELSE IF cur.op = "get_PI"
    THEN /\ result' = get_PI_decode(packet)
         /\ UNCHANGED <<attrs, max_volts, wire>>
    ELSE IF cur.op = "set_volts"
    THEN LET r == get_settings_decode(packet) IN
         IF r.kind # "ok"
         THEN /\ result' = r
              /\ UNCHANGED <<attrs, max_volts, wire>>
         ELSE LET t == set_volts_tail(cur.arg, r.value.V_lim) IN
              /\ max_volts' = r.value.V_lim
              /\ attrs' = attrs \cup {"max_volts"}
              /\ wire' = wire \o t.writes
              /\ result' = [kind |-> IF t.exc = "none" THEN "ok" ELSE t.exc, value |-> 0]
    ELSE IF cur.op = "get_pos"
    THEN /\ result' = get_pos_decode(packet, x_conv)
         /\ UNCHANGED <<attrs, max_volts, wire>>
    ELSE IF cur.op = "get_vel_params"
    THEN /\ result' = get_vel_params_decode(packet, v_conv, a_conv)
         /\ UNCHANGED <<attrs, max_volts, wire>>
    ELSE IF cur.op = "get_jog_params"
    THEN /\ result' = get_jog_params_decode(packet, x_conv, v_conv, a_conv)
         /\ UNCHANGED <<attrs, max_volts, wire>>
    ELSE /\ result' = [kind |-> "ok", value |-> packet]
         /\ UNCHANGED <<attrs, max_volts, wire>>

ReadAttempt ==
    /\ pc = "await"
    /\ LET r == _read_packet(Bytes(rx))
           packet == r.packet
           taken == Take(rx, r.used)
           matched == Matches(packet, cur.cmd)
       IN  /\ rx' = Consume(rx, r.used, matched)
           /\ log' = Logged(log, HeadTruth(rx), cur.cmd, packet, r.used, matched)
           /\ IF matched
              THEN /\ ret' = packet
                   /\ retFrom' = Ident(taken)
                   /\ pc' = "idle"
                   /\ Continue(packet)
                   /\ UNCHANGED <<n, sleeps, discarded>>
              ELSE /\ n' = NextAttempt(n, packet)
                   /\ sleeps' = sleeps + SleepsAfter(packet)
                   /\ discarded' = discarded \cup Ident(taken)
                   /\ IF Exhausted(n', cur.attempts)
                      THEN /\ pc' = "idle"
                           /\ result' = [kind |-> "Timeout", value |-> cur.cmd]
                      ELSE UNCHANGED <<pc, result>>
                   /\ UNCHANGED <<ret, retFrom, attrs, max_volts, wire>>
    /\ UNCHANGED <<platform, cls, life, port, releases, x_conv, v_conv, a_conv,
                   pending, sentCount, late, cur, codec, conv>>

(***************************************************************************)
(* The specification of a handle and its device.                           *)
(***************************************************************************)
\* the attempts tried when _get_packet is called on its own
MaxAttemptsArg == 2

\* the voltages asked for
Volts == {-1, 100, 200}

CodecIdle == [pc |-> "off"]

ConvIdle == [pc |-> "off"]

Init ==
    /\ platform \in {"Windows", "Other"}
    /\ cls = "TPZ001"
    /\ life = "new"
    /\ attrs = {}
    /\ port = "none"
    /\ releases = 0
    /\ max_volts = 0
    /\ x_conv = 0
    /\ v_conv = NoScale
    /\ a_conv = NoScale
    /\ rx = <<>>
    /\ pending = <<>>
    /\ sentCount = 0
    /\ late = {}
    /\ pc = "idle"
    /\ cur = Idle
    /\ n = 0
    /\ sleeps = 0
    /\ log = NoLog
    /\ ret = None
    /\ retFrom = {}
    /\ wire = <<>>
    /\ result = NoResult
    /\ discarded = {}
    /\ codec = CodecIdle
    /\ conv = ConvIdle

Next ==
    \/ \E found \in 0..MaxDevs, device \in 0..MaxDevs,
          fail \in {"none", "open", "config"}, counts \in CountsSet :
          Construct(found, device, fail, counts)
    \/ Close
    \/ Del
    \/ Identify
    \/ GetSettings
    \/ GetPI
    \/ \E V \in Volts : SetVolts(V)
    \/ \E cmd \in {2006, 1628}, att \in 0..MaxAttemptsArg : GetPacket(cmd, att)
    \/ ReadAttempt
    \/ \E p \in DevicePackets, cut \in Cuts \cup {6, 12} : DeviceSend(p, cut)
    \/ DeviceRest

Spec == Init /\ [][Next]_vars


(***************************************************************************)
(* The codec on its own: _write_packet writes into a transport that hands  *)
(* the same bytes back, and _read_packet reads them.                       *)
(***************************************************************************)
CodecCmds == {0, 5, 255, 256, 547, 65535}

CodecParams == {0, 1, 255}

CodecDests == {0, 80, 127, 208}

CodecSrcs == {1, 255}

\* a payload whose length needs both bytes of the length field
LongPayload == [i \in 1..300 |-> i % 256]

\* the payloads tried, besides data=None
CodecData == {<<>>, <<7>>, <<1, 0, 2, 0, 3, 0>>, LongPayload}

CodecStart(cmd, param1, param2, data, dest, src) ==
    [pc |-> "args",
     args |-> [cmd |-> cmd, param1 |-> param1, param2 |-> param2, data |-> data,
               dest |-> dest, src |-> src],
     exc |-> "none", writes |-> <<>>, buf |-> <<>>, out |-> None, used |-> 0]

HandleAtInit ==
    /\ platform = "Other"
    /\ cls = "TPZ001"
    /\ life = "new"
    /\ attrs = {}
    /\ port = "none"
    /\ releases = 0
    /\ max_volts = 0
    /\ x_conv = 0
    /\ v_conv = NoScale
    /\ a_conv = NoScale
    /\ rx = <<>>
    /\ pending = <<>>
    /\ sentCount = 0
    /\ late = {}
    /\ pc = "idle"
    /\ cur = Idle
    /\ n = 0
    /\ sleeps = 0
    /\ log = NoLog
    /\ ret = None
    /\ retFrom = {}
    /\ wire = <<>>
    /\ result = NoResult
    /\ discarded = {}

CodecInit ==
    /\ HandleAtInit
    /\ conv = ConvIdle
    /\ \E cmd \in CodecCmds, param1 \in CodecParams, param2 \in CodecParams,
          dest \in CodecDests, src \in CodecSrcs :
          \E data \in CodecData \cup {NoData} :
              codec = CodecStart(cmd, param1, param2, data, dest, src)

\* _write_packet(cmd, param1, param2, data, dest, src)
CodecWrite ==
    /\ codec.pc = "args"
    /\ LET a == codec.args
           w == _write_packet(a.cmd, a.param1, a.param2, a.data, a.dest, a.src)
       IN  codec' = [codec EXCEPT !.pc = "written", !.exc = w.exc,
                                  !.writes = w.writes, !.buf = Flatten(w.writes)]
    /\ UNCHANGED <<handleVars, deviceVars, callVars, conv>>

\* _read_packet()
CodecRead ==
    /\ codec.pc = "written"
    /\ LET r == _read_packet(codec.buf)
       IN  codec' = [codec EXCEPT !.pc = "read", !.out = r.packet, !.used = r.used,
                                  !.buf = Drop(codec.buf, r.used)]
    /\ UNCHANGED <<handleVars, deviceVars, callVars, conv>>

CodecNext == CodecWrite \/ CodecRead

CodecSpec == CodecInit /\ [][CodecNext]_vars

(***************************************************************************)
(* The codec on a transport that is slow: of the bytes _write_packet wrote *)
(* only the first k have arrived when _read_packet reads, and read(n)      *)
(* times out with what there is.                                           *)
(***************************************************************************)
\* how many bytes have arrived
Arrived == {0, 5, 6, 7, 9, 12}

CodecWriteSlow(k) ==
    /\ codec.pc = "args"
    /\ LET a == codec.args
           w == _write_packet(a.cmd, a.param1, a.param2, a.data, a.dest, a.src)
       IN  codec' = [codec EXCEPT !.pc = "written", !.exc = w.exc,
                                  !.writes = w.writes,
                                  !.buf = Take(Flatten(w.writes), k)]
    /\ UNCHANGED <<handleVars, deviceVars, callVars, conv>>

SlowNext == (\E k \in Arrived : CodecWriteSlow(k)) \/ CodecRead

SlowSpec == CodecInit /\ [][SlowNext]_vars

(***************************************************************************)
(* The unit conversion on its own: a distance num / XDen is converted as   *)
(* move does and the raw value converted back as get_pos does.             *)
(***************************************************************************)
ConvInit ==
    /\ HandleAtInit
    /\ codec = CodecIdle
    /\ conv \in {[pc |-> "x", counts |-> c, num |-> x, raw |-> 0, phys |-> <<0, 1>>] :
                    c \in CountsSet, x \in (-MaxNum)..MaxNum}

\* move: d = int(distance * self._x_conv + 0.5)
ConvToRaw ==
    /\ conv.pc = "x"
    /\ conv' = [conv EXCEPT !.pc = "raw",
                            !.raw = to_raw_position(conv.num, XDen, conv.counts)]
    /\ UNCHANGED <<handleVars, deviceVars, callVars, codec>>

\* get_pos: data[1] / self._x_conv
ConvToPhysical ==
    /\ conv.pc = "raw"
    /\ conv' = [conv EXCEPT !.pc = "phys",
                            !.phys = to_physical_position(conv.raw, conv.counts)]
    /\ UNCHANGED <<handleVars, deviceVars, callVars, codec>>

ConvNext == ConvToRaw \/ ConvToPhysical

ConvSpec == ConvInit /\ [][ConvNext]_vars

(***************************************************************************)
(* get_settings on a constructed TPZ001 whose device answers with any      *)
(* pair of codes 0..MaxCode.                                               *)
(***************************************************************************)
MaxCode == 4

SettingsInit ==
    /\ platform = "Other"
    /\ cls = "TPZ001"
    /\ life = "ready"
    /\ attrs = {"port", "_write", "_read", "_flush"}
    /\ port = "open"
    /\ releases = 0
    /\ max_volts = 0
    /\ x_conv = 0
    /\ v_conv = NoScale
    /\ a_conv = NoScale
    /\ rx = <<>>
    /\ pending = <<>>
    /\ sentCount = 0
    /\ late = {}
    /\ pc = "idle"
    /\ cur = [Idle EXCEPT !.op = "__init__"]
    /\ n = 0
    /\ sleeps = 0
    /\ log = NoLog
    /\ ret = None
    /\ retFrom = {}
    /\ wire = <<>>
    /\ result = [kind |-> "ok", value |-> 0]
    /\ discarded = {}
    /\ codec = CodecIdle
    /\ conv = ConvIdle

SettingsNext ==
    \/ GetSettings
    \/ ReadAttempt
    \/ /\ pc = "await"
       /\ \E v \in 0..MaxCode, a \in 0..MaxCode : DeviceSend(SettingsPacket(v, a), 12)

SettingsSpec == SettingsInit /\ [][SettingsNext]_vars

(***************************************************************************)
(* set_pos on a constructed TPZ001, for the percentages num / XDen from    *)
(* below 0 to above 100.                                                   *)
(***************************************************************************)
PctNums == (-MaxNum)..(100 * XDen + MaxNum)

PosNext == \E num \in PctNums : SetPos(num)

PosSpec == SettingsInit /\ [][PosNext]_vars

(***************************************************************************)
(* A KDC101 and its stage: construction, set_counts_per_unit, move, the    *)
(* velocity, jog and position calls, close.  The stage's packets arrive    *)
(* whole here; a packet that arrives in parts is followed in Spec.         *)
(***************************************************************************)
\* the answer to the position query 0x0411: channel, position in counts
PosPacket(raw) == [cmd |-> 1042, data |-> PackH(1) \o PackI(raw)]

\* the answer to the velocity query 0x0414: channel, min_vel, accel, max_vel
VelPacket(accel, max_vel) ==
    [cmd |-> 1045, data |-> PackH(1) \o PackI(0) \o PackI(accel) \o PackI(max_vel)]

\* the answer to the jog query 0x0417: channel, jog mode, step size,
\* min_vel, accel, max_vel, stop mode
JogPacket(jog, stop) ==
    [cmd |-> 1048,
     data |-> PackH(1) \o PackH(jog) \o PackI(-3) \o PackI(0) \o PackI(5)
                \o PackI(70000) \o PackH(stop)]

\* the packets the stage sends: answers, and a short-form message it sends
\* unasked after a move
KdcPackets ==
    {PosPacket(DefaultCounts), VelPacket(5, 70000), JogPacket(1, 2)}
    \cup {[cmd |-> 1124, param1 |-> 1, param2 |-> 0]}

\* the distances asked for: num / XDen
MoveNums == {-XDen, -1, 0, 1, XDen}

\* the velocities and accelerations asked for: num / XDen
VelNums == {0}

KdcInit ==
    /\ platform = "Other"
    /\ cls = "KDC101"
    /\ life = "new"
    /\ attrs = {}
    /\ port = "none"
    /\ releases = 0
    /\ max_volts = 0
    /\ x_conv = 0
    /\ v_conv = NoScale
    /\ a_conv = NoScale
    /\ rx = <<>>
    /\ pending = <<>>
    /\ sentCount = 0
    /\ late = {}
    /\ pc = "idle"
    /\ cur = Idle
    /\ n = 0
    /\ sleeps = 0
    /\ log = NoLog
    /\ ret = None
    /\ retFrom = {}
    /\ wire = <<>>
    /\ result = NoResult
    /\ discarded = {}
    /\ codec = CodecIdle
    /\ conv = ConvIdle

KdcNext ==
    \/ \E fail \in {"none", "open"}, counts \in CountsSet :
          Construct(MaxDevs, 0, fail, counts)
    \/ \E counts \in CountsSet : SetCountsPerUnit(counts)
    \/ \E num \in MoveNums, absolute \in BOOLEAN : Move(num, 1, absolute)
    \/ \E accel \in VelNums, max_vel \in VelNums : SetVelParams(accel, max_vel)
    \/ GetVelParams
    \/ GetJogParams
    \/ GetPos
    \/ Identify
    \/ Close
    \/ ReadAttempt
    \/ \E p \in KdcPackets : DeviceSend(p, Len(DeviceFrame(p)))

KdcSpec == KdcInit /\ [][KdcNext]_vars

(***************************************************************************)
(* get_jog_params on a constructed KDC101 whose stage answers with any     *)
(* pair of jog-mode and stop-mode codes 0..MaxCode.                        *)
(***************************************************************************)
JogInit ==
    /\ platform = "Other"
    /\ cls = "KDC101"
    /\ life = "ready"
    /\ attrs = {"port", "_write", "_read", "_flush"}
    /\ port = "open"
    /\ releases = 0
    /\ max_volts = 0
    /\ x_conv = set_counts_per_unit(DefaultCounts).x_conv
    /\ v_conv = set_counts_per_unit(DefaultCounts).v_conv
    /\ a_conv = set_counts_per_unit(DefaultCounts).a_conv
    /\ rx = <<>>
    /\ pending = <<>>
    /\ sentCount = 0
    /\ late = {}
    /\ pc = "idle"
    /\ cur = [Idle EXCEPT !.op = "__init__"]
    /\ n = 0
    /\ sleeps = 0
    /\ log = NoLog
    /\ ret = None
    /\ retFrom = {}
    /\ wire = <<>>
    /\ result = [kind |-> "ok", value |-> 0]
    /\ discarded = {}
    /\ codec = CodecIdle
    /\ conv = ConvIdle

JogNext ==
    \/ GetJogParams
    \/ ReadAttempt
    \/ /\ pc = "await"
       /\ \E jog \in 0..MaxCode, stop \in 0..MaxCode :
              DeviceSend(JogPacket(jog, stop), Len(DeviceFrame(JogPacket(jog, stop))))

JogSpec == JogInit /\ [][JogNext]_vars


(***************************************************************************)
(* Properties.                                                             *)
(***************************************************************************)
Abs(i) == IF i < 0 THEN -i ELSE i

\* C1: when every _read_packet of a _get_packet call found one whole packet
\* of the device at the head of the input, the call discards the packets
\* with another command, each taken whole, and returns the first packet with
\* the awaited command: decoded from exactly that packet's bytes, after as
\* many discards as there were passes before it, with nothing read past it.
C1_FirstMatchReturned ==
    (log.made >= 1 /\ log.clean) =>
        /\ log.exact
        /\ log.none = 0
        /\ IF log.hits >= 1
           THEN /\ log.hits = 1
                /\ pc = "idle"
                /\ ret # None
                /\ ret.cmd = cur.cmd
                /\ log.other = log.made - 1
                /\ n = log.made - 1
                /\ retFrom # {}
                /\ retFrom = {<<log.lastId, i, cur.cmd>> : i \in 1..Cardinality(retFrom)}
           ELSE /\ ret = None
                /\ log.other = log.made

\* a packet with the awaited command was returned after one with another
\* command was discarded
C1_Witness ==
    /\ pc = "idle"
    /\ log.clean
    /\ log.hits = 1
    /\ log.other >= 1
    /\ ret # None

\* C2: _get_packet makes at most `attempts` passes; when none of them finds
\* the awaited command it has made exactly `attempts` passes and raises the
\* Timeout naming the awaited command; what it returns is a packet with the
\* awaited command, never None and never another packet.
C2_TimeoutAfterMaxAttempts ==
    /\ result.kind = "Timeout" =>
           /\ pc = "idle"
           /\ log.made = cur.attempts
           /\ log.none + log.other = log.made
           /\ result.value = cur.cmd
           /\ ret = None
    /\ ret # None => ret.cmd = cur.cmd
    /\ pc = "await" => (log.made < cur.attempts /\ n = log.made /\ ret = None)
    /\ (pc = "idle" /\ log.made >= 1) => (ret # None \/ result.kind = "Timeout")

\* a call with the default ten attempts timed out although a packet arrived
C2_Witness ==
    /\ result.kind = "Timeout"
    /\ cur.attempts = DefaultAttempts
    /\ log.made = DefaultAttempts
    /\ log.other >= 1

\* C3 as stated: _get_packet sleeps, and uses up an attempt, only on the
\* passes that gave "no packet".
C3_SleepOnlyOnNoPacket == sleeps = log.none /\ n = log.none

\* C3 amended: _get_packet sleeps, and uses up an attempt, on every pass that
\* does not return: after "no packet" and after a packet with another command.
C3_SleepOnEveryMiss ==
    /\ sleeps = log.none + log.other
    /\ n = log.none + log.other

\* a packet with another command was discarded and the loop goes on
C3_Witness ==
    /\ pc = "await"
    /\ log.other >= 1
    /\ sleeps >= 1

\* the header _write_packet is to write before a payload of `len` bytes
LongHeaderOf(a, len) ==
    <<a.cmd % 256, a.cmd \div 256, len % 256, len \div 256,
      IF a.dest >= 128 THEN a.dest ELSE a.dest + 128, a.src>>

\* the header _write_packet is to write when there is no payload
ShortHeaderOf(a) == <<a.cmd % 256, a.cmd \div 256, a.param1, a.param2, a.dest, a.src>>

\* C4 as stated: an empty payload is refused with an EncodingError and
\* nothing is written; a payload that is not empty is written after its
\* long-form header; without payload the short-form header alone is written.
C4_EmptyPayloadRefused ==
    codec.pc \in {"written", "read"} =>
        IF codec.args.data = NoData
        THEN codec.exc = "none" /\ codec.writes = <<ShortHeaderOf(codec.args)>>
        ELSE IF codec.args.data = <<>>
        THEN codec.exc = "EncodingError" /\ codec.writes = <<>>
        ELSE /\ codec.exc = "none"
             /\ codec.writes = <<LongHeaderOf(codec.args, Len(codec.args.data)),
                                 codec.args.data>>

\* C4 amended: _write_packet raises nothing; for every payload, the empty
\* one too, it writes the long-form header (length field the payload's
\* length, 0 for the empty one) and then the payload; without payload it
\* writes the short-form header alone.
C4_EmptyPayloadWritten ==
    codec.pc \in {"written", "read"} =>
        /\ codec.exc = "none"
        /\ IF codec.args.data = NoData
           THEN codec.writes = <<ShortHeaderOf(codec.args)>>
           ELSE codec.writes = <<LongHeaderOf(codec.args, Len(codec.args.data)),
                                 codec.args.data>>

\* an empty payload was written: six bytes of header reached the transport
C4_Witness ==
    /\ codec.pc = "written"
    /\ codec.args.data = <<>>
    /\ codec.exc = "none"
    /\ Len(codec.buf) = 6

\* C5: close() raises nothing, neither called directly nor by __del__, in
\* any state of the handle, and the transport, once open, is released
\* exactly once.
C5_CloseNeverFails ==
    /\ cur.op = "close" => result.kind = "ok"
    /\ cur.op = "__del__" => result.value = "none"
    /\ releases <= 1
    /\ port = "closed" => releases = 1
    /\ life = "destroyed" => port # "open"

\* the settings query get_settings writes: 0x07D5, 1, 0, 0x50, 0x01
SettingsQuery == <<213, 7, 1, 0, 80, 1>>

\* C6 as stated: set_volts(V) with V outside [0, max_volts] raises the
\* RangeError and that call has written nothing.
C6_RangeErrorWritesNothing ==
    (cur.op = "set_volts" /\ pc = "idle" /\ "max_volts" \in attrs
        /\ (cur.arg < 0 \/ cur.arg > max_volts)) =>
            (result.kind = "RangeError" /\ wire = <<>>)

\* C6 amended: set_volts(V) with V outside [0, max_volts] raises the
\* RangeError and writes no voltage packet; with max_volts cached when the
\* call began it has written nothing, otherwise it has written the settings
\* query, and only that.
C6_RangeErrorWritesNoVoltage ==
    /\ (cur.op = "set_volts" /\ pc = "idle" /\ "max_volts" \in attrs
           /\ (cur.arg < 0 \/ cur.arg > max_volts)) =>
               /\ result.kind = "RangeError"
               /\ wire = IF cur.cached THEN <<>> ELSE <<SettingsQuery>>
    /\ (cur.op = "set_volts" /\ pc = "await") =>
               (~cur.cached /\ wire = <<SettingsQuery>>)

\* a set_volts that had to load max_volts ended in the RangeError
C6_Witness ==
    /\ cur.op = "set_volts"
    /\ pc = "idle"
    /\ ~cur.cached
    /\ result.kind = "RangeError"
    /\ wire = <<SettingsQuery>>

\* C7: no byte of a returned packet is a byte _get_packet discarded.
C7_DiscardedNeverReturned == retFrom \cap discarded = {}

\* a call that discarded nothing returned a packet, after an earlier call had
\* discarded a packet with the command this call awaits
C7_Witness ==
    /\ ret # None
    /\ retFrom # {}
    /\ log.none = 0
    /\ log.other = 0
    /\ \E d \in discarded : d[3] = cur.cmd

\* C8: get_settings on an answer with at least six payload bytes returns the
\* table values when both codes are in 1..3, and raises the DecodingError,
\* naming the code, when either is not.
C8_StrictLookup ==
    (cur.op = "get_settings" /\ pc = "idle" /\ ret # None
        /\ "data" \in DOMAIN ret /\ Len(ret.data) >= 6) =>
        LET v == ret.data[3] + 256 * ret.data[4]
            a == ret.data[5] + 256 * ret.data[6]
        IN  IF v \in {1, 2, 3} /\ a \in {1, 2, 3}
            THEN result =
                   [kind |-> "ok",
                    value |-> [V_lim |-> CASE v = 1 -> 75 [] v = 2 -> 100 [] v = 3 -> 150,
                               analog_input |-> CASE a = 1 -> "A" [] a = 2 -> "B"
                                                  [] a = 3 -> "SMA"]]
            ELSE /\ result.kind = "DecodingError"
                 /\ result.value = IF v \notin {1, 2, 3} THEN v ELSE a

\* get_settings raised the DecodingError on voltage-limit code 4
C8_Witness ==
    /\ cur.op = "get_settings"
    /\ pc = "idle"
    /\ ret # None
    /\ ret.data[3] = 4
    /\ result.kind = "DecodingError"
    /\ result.value = 4

\* C9: the distance converted to raw and back differs from the distance by
\* at most half a raw unit: |raw / counts - num / XDen| <= 1 / (2 counts).
C9_RoundTripWithinHalfUnit ==
    conv.pc = "phys" =>
        2 * Abs(conv.phys[1] * XDen - conv.num * conv.phys[2]) <= XDen

\* C10: a short-form packet with dest below 0x80, written by _write_packet
\* and read back by _read_packet, gives the same command, parameters,
\* destination and source, no payload, and takes exactly the six bytes.
C10_ShortRoundTrip ==
    (codec.pc = "read" /\ codec.args.data = NoData /\ codec.args.dest < 128) =>
        /\ codec.out # None
        /\ DOMAIN codec.out = {"cmd", "source", "id", "dest", "param1", "param2"}
        /\ codec.out.cmd = codec.args.cmd
        /\ codec.out.param1 = codec.args.param1
        /\ codec.out.param2 = codec.args.param2
        /\ codec.out.dest = codec.args.dest
        /\ codec.out.source = codec.args.src
        /\ codec.used = 6
        /\ codec.buf = <<>>

\* identify's packet with parameters 1 and 255 was read back
C10_Witness ==
    /\ codec.pc = "read"
    /\ codec.args.data = NoData
    /\ codec.args.cmd = 547
    /\ codec.args.dest = 80
    /\ codec.out # None
    /\ codec.out.param1 = 1
    /\ codec.out.param2 = 255

\* C11: for a payload and a dest below 0x80, _write_packet writes a header
\* with the payload's length little-endian in bytes 2-3 and dest | 0x80 in
\* byte 4, then the payload; _read_packet on those bytes gives the same
\* command, dest, source and payload, and takes all of them.
C11_LongRoundTrip ==
    (codec.pc \in {"written", "read"} /\ codec.args.data # NoData
        /\ codec.args.dest < 128) =>
        /\ Len(codec.writes) = 2
        /\ Len(codec.writes[1]) = 6
        /\ codec.writes[1][3] + 256 * codec.writes[1][4] = Len(codec.args.data)
        /\ codec.writes[1][5] = codec.args.dest + 128
        /\ codec.writes[1][6] = codec.args.src
        /\ codec.writes[2] = codec.args.data
        /\ codec.pc = "read" =>
               /\ codec.out # None
               /\ DOMAIN codec.out = {"cmd", "source", "id", "dest", "data"}
               /\ codec.out.cmd = codec.args.cmd
               /\ codec.out.dest = codec.args.dest
               /\ codec.out.source = codec.args.src
               /\ codec.out.data = codec.args.data
               /\ codec.used = 6 + Len(codec.args.data)
               /\ codec.buf = <<>>

\* a payload of 300 bytes was read back
C11_Witness ==
    /\ codec.pc = "read"
    /\ codec.args.data # NoData
    /\ Len(codec.args.data) > 255
    /\ codec.args.dest = 80
    /\ codec.out # None
    /\ codec.out.data = codec.args.data

\* the counts move put in its payload
MovedRaw == UnpackI(SubSeq(wire[2], 3, 6))

\* C12: move writes one long-form packet, 0x0453 for an absolute move and
\* 0x0448 otherwise, whose payload is the channel and the distance in
\* counts rounded to the nearest integer, as 32 signed bits; it reads
\* nothing and awaits nothing.
C12_MoveEncodesRounded ==
    (cur.op = "move" /\ "_write" \in attrs) =>
        /\ pc = "idle"
        /\ result.kind = "ok"
        /\ log.made = 0
        /\ Len(wire) = 2
        /\ wire[1] = <<IF cur.arg.absolute THEN 83 ELSE 72, 4, 6, 0, 208, 1>>
        /\ Len(wire[2]) = 6
        /\ wire[2][1] = cur.arg.channel /\ wire[2][2] = 0
        /\ 2 * Abs(MovedRaw * XDen - cur.arg.num * x_conv) <= XDen

\* C13: get_pos, get_vel_params and get_jog_params purge, then write their
\* query, then await: when the first read is made the query is written and
\* none of the bytes buffered before the call is left; no such byte is ever
\* decoded, neither into the packet returned nor into one discarded.
C13_PurgedNeverReturned ==
    cur.op \in Purging =>
        /\ retFrom \cap cur.stale = {}
        /\ discarded \cap cur.stale = {}
        /\ (pc = "await" /\ log.made = 0) => Ident(rx) \cap cur.stale = {}
        /\ (pc = "await" \/ log.made >= 1) =>
               wire = << <<(cur.cmd % 256) - 1, 4, 1, 0, 80, 1>> >>

\* get_pos returned a position although an answer to an earlier position
\* query was buffered unread when it was called
C13_Witness ==
    /\ cur.op = "get_pos"
    /\ pc = "idle"
    /\ ret # None
    /\ result.kind = "ok"
    /\ \E d \in cur.stale : d[3] = 1042

\* C14: after _get_packet raised the Timeout the handle is as it was: the
\* transport open and never released, every attribute in place, no call in
\* progress; get_settings can be called; and a call made after a Timeout
\* that finds the awaited packet whole at the head of the input returns it.
C14_TimeoutLeavesHandleUsable ==
    /\ (result.kind = "Timeout" /\ cur.attempts >= 1) =>
           /\ pc = "idle"
           /\ life = "ready"
           /\ port = "open"
           /\ releases = 0
           /\ {"port", "_write", "_read", "_flush"} \subseteq attrs
           /\ ENABLED GetSettings
    /\ (cur.afterTimeout /\ log.made >= 1 /\ log.clean /\ log.hits >= 1) =>
           /\ pc = "idle"
           /\ ret # None
           /\ ret.cmd = cur.cmd
           /\ result.kind # "Timeout"

\* a get_settings called after a Timeout returned the settings
C14_Witness ==
    /\ cur.afterTimeout
    /\ cur.op = "get_settings"
    /\ pc = "idle"
    /\ ret # None
    /\ result.kind = "ok"
    /\ port = "open"

\* the three factors are those set_counts_per_unit derives from _x_conv
FactorsDerived ==
    /\ v_conv = [counts |-> x_conv, T |-> 1, B |-> 1]
    /\ a_conv = [counts |-> x_conv, T |-> 2, B |-> 1]

\* C15: from the construction of a KDC101 on, _v_conv is _x_conv * DRIVER_T
\* * 65536 and _a_conv is _v_conv * DRIVER_T; after set_counts_per_unit
\* _x_conv is the counts given; and only the constructor and
\* set_counts_per_unit change any of the three.
C15_FactorsJointlyDerived ==
    /\ [](/\ life # "new" => (x_conv \in CountsSet /\ FactorsDerived)
          /\ cur.op = "set_counts_per_unit" => x_conv = cur.arg)
    /\ [][<<x_conv, v_conv, a_conv>>' # <<x_conv, v_conv, a_conv>> =>
              /\ cur'.op \in {"__init__", "set_counts_per_unit"}
              /\ cur' # cur]_vars

\* set_counts_per_unit(2) was called on a constructed handle
C15_Witness ==
    /\ cur.op = "set_counts_per_unit"
    /\ cur.arg = 2
    /\ life = "ready"
    /\ x_conv = 2
    /\ v_conv.counts = 2
    /\ a_conv.counts = 2
    /\ a_conv.T = 2

\* the jog-mode and stop-mode codes of the answer get_jog_params decoded
JogCode == ret.data[3] + 256 * ret.data[4]

StopCode == ret.data[21] + 256 * ret.data[22]

\* C16 as stated: get_jog_params on an answer of 22 payload bytes raises
\* nothing, gives 'continuous' and 'single-step' for the jog modes 1 and 2,
\* 'immediate' and 'profiled' for the stop modes 1 and 2, and the code
\* itself for any other.
C16_JogModeSingleStepHyphen ==
    (cur.op = "get_jog_params" /\ pc = "idle" /\ ret # None
        /\ "data" \in DOMAIN ret /\ Len(ret.data) = 22) =>
        /\ result.kind = "ok"
        /\ result.value.jog_mode =
               (IF JogCode = 1 THEN "continuous"
                ELSE IF JogCode = 2 THEN "single-step" ELSE JogCode)
        /\ result.value.stop_mode =
               (IF StopCode = 1 THEN "immediate"
                ELSE IF StopCode = 2 THEN "profiled" ELSE StopCode)

\* C16 amended: get_jog_params on an answer of 22 payload bytes raises
\* nothing, gives 'continuous' and 'single step' (no hyphen) for the jog
\* modes 1 and 2, 'immediate' and 'profiled' for the stop modes 1 and 2,
\* and the code itself for any other.
C16_JogCodesLenient ==
    (cur.op = "get_jog_params" /\ pc = "idle" /\ ret # None
        /\ "data" \in DOMAIN ret /\ Len(ret.data) = 22) =>
        /\ result.kind = "ok"
        /\ result.value.jog_mode =
               (IF JogCode = 1 THEN "continuous"
                ELSE IF JogCode = 2 THEN "single step" ELSE JogCode)
        /\ result.value.stop_mode =
               (IF StopCode = 1 THEN "immediate"
                ELSE IF StopCode = 2 THEN "profiled" ELSE StopCode)

\* get_jog_params returned the codes 3 and 0 as they came
C16_Witness ==
    /\ cur.op = "get_jog_params"
    /\ pc = "idle"
    /\ ret # None
    /\ JogCode = 3
    /\ StopCode = 0
    /\ result.kind = "ok"
    /\ result.value.jog_mode = 3
    /\ result.value.stop_mode = 0

\* the value field of the packet set_pos wrote
PosValue == wire[2][3] + 256 * wire[2][4]

\* C17: set_pos(pct) with pct outside [0, 100] raises the RangeError and
\* writes nothing; with pct inside it writes one 0x0646 packet with the
\* channel 1 and the value v, 0 <= v <= 65535, that is (pct / 100) * 65535
\* rounded to the nearest integer, halves up; it reads nothing.
C17_SetPosRangeAndValue ==
    cur.op = "set_pos" =>
        /\ pc = "idle"
        /\ log.made = 0
        /\ IF cur.arg < 0 \/ cur.arg > 100 * XDen
           THEN result.kind = "RangeError" /\ wire = <<>>
           ELSE /\ result.kind = "ok"
                /\ Len(wire) = 2
                /\ wire[1] = <<70, 6, 4, 0, 208, 1>>
                /\ Len(wire[2]) = 4
                /\ wire[2][1] = 1 /\ wire[2][2] = 0
                /\ PosValue >= 0 /\ PosValue <= 65535
                /\ 200 * XDen * PosValue <= 2 * cur.arg * 65535 + 100 * XDen
                /\ 2 * cur.arg * 65535 + 100 * XDen < 200 * XDen * (PosValue + 1)

\* set_pos(100) wrote the largest value, 65535
C17_Witness ==
    /\ cur.op = "set_pos"
    /\ cur.arg = 100 * XDen
    /\ result.kind = "ok"
    /\ wire = << <<70, 6, 4, 0, 208, 1>>, <<1, 0, 255, 255>> >>

\* C18: set_volts writes the settings query only when max_volts is not an
\* attribute of the handle, and then once, before anything else; with
\* max_volts cached it writes at most the voltage packet and awaits
\* nothing; when the query ends in the Timeout or a decoding error
\* max_volts stays absent and only the query was written; when the query
\* is answered max_volts is cached, and once cached it stays as it is.
C18_MaxVoltsLoadedOnce ==
    /\ [](cur.op = "set_volts" =>
            /\ cur.cached =>
                   /\ pc = "idle"
                   /\ log.made = 0
                   /\ \A i \in 1..Len(wire) : wire[i] # SettingsQuery
            /\ (~cur.cached /\ "_write" \in attrs) =>
                   /\ Len(wire) >= 1
                   /\ wire[1] = SettingsQuery
                   /\ \A i \in 2..Len(wire) : wire[i] # SettingsQuery
            /\ result.kind \in {"Timeout", "DecodingError", "StructError"} =>
                   /\ "max_volts" \notin attrs
                   /\ wire = <<SettingsQuery>>
            /\ (~cur.cached /\ result.kind \in {"ok", "RangeError"}) =>
                   /\ "max_volts" \in attrs
                   /\ max_volts \in {75, 100, 150})
    /\ [][("max_volts" \in attrs) =>
              ("max_volts" \in attrs' /\ max_volts' = max_volts)]_vars

\* a set_volts on a handle with max_volts cached wrote the voltage packet
\* and no settings query
C18_Witness ==
    /\ cur.op = "set_volts"
    /\ cur.cached
    /\ result.kind = "ok"
    /\ Len(wire) = 2
    /\ wire[1] = <<67, 6, 4, 0, 208, 1>>

\* C19: after close() every call of identify, move, set_vel_params,
\* get_vel_params, get_jog_params or get_pos ends in the AttributeError
\* with nothing written, read or purged on the closed transport.
C19_NoTransportUseAfterClose ==
    /\ late = {}
    /\ (port = "closed" /\ cur.op \in {"identify", "move", "set_vel_params",
                                       "get_vel_params", "get_jog_params", "get_pos"}) =>
           /\ pc = "idle"
           /\ result.kind = "AttributeError"
           /\ wire = <<>>
           /\ log.made = 0

\* C20: the payload of a long-form packet _read_packet returns has the
\* length its header declares in bytes 2-3, also when fewer bytes than
\* were written have arrived.
C20_PayloadLengthAsDeclared ==
    (codec.pc = "read" /\ codec.args.data # NoData /\ codec.out # None
        /\ "data" \in DOMAIN codec.out) =>
        Len(codec.out.data) = codec.writes[1][3] + 256 * codec.writes[1][4]

\* C21: the input left unread in the transport starts at a packet boundary:
\* its first byte is the first byte of a packet the device sent, every
\* _read_packet before having taken no byte or one whole packet.
C21_DecodeStaysAligned == rx # <<>> => rx[1].k = 1

=============================================================================
